---- MODULE Spec2Model ----
(***************************************************************************)
(* A model of lincolns (crate "lincol"): from_str / from_reader run the    *)
(* yaml_rust parser with a Positions value as event receiver, then walk    *)
(* the recorded event buffer with collect / collect_seq / collect_map and  *)
(* fill a BTreeMap from rendered path strings to positions.                *)
(*                                                                         *)
(* Strings are sequences of one-character strings, so that rendering,      *)
(* concatenation and the byte-wise order of BTreeMap keys are computed.    *)
(***************************************************************************)
EXTENDS Integers, Sequences, FiniteSets, TLC

\* ------------------------------------------------------------------ bounds
\* Most callbacks the parser makes in one construction (the stream and
\* document envelopes included).
MaxCallbacks == 13
\* Most segments of a Path value that is built and formatted on its own.
MaxPathLen == 3
\* Most callbacks a receiver gets that is driven without the parser.
MaxArrivals == 4

\* --------------------------------------------------------------- strings
\* The scalar texts the parsed documents draw mapping keys from.
Texts == { <<"~">>, <<"0">>, <<"~", "/", "0">> }
\* The scalar texts they draw values, elements and scalar documents from.
ValueTexts == { <<"0">> }

\* The byte value of a character (Rust compares String byte-wise).
Code(c) ==
  CASE c = "/" -> 47
    [] c = "0" -> 48 [] c = "1" -> 49 [] c = "2" -> 50 [] c = "3" -> 51
    [] c = "4" -> 52 [] c = "5" -> 53 [] c = "6" -> 54 [] c = "7" -> 55
    [] c = "8" -> 56 [] c = "9" -> 57
    [] c = "~" -> 126

RECURSIVE StrLess(_, _)
\* s < t in the order of Rust's str (lexicographic on bytes).
StrLess(s, t) ==
  IF t = <<>> THEN FALSE
  ELSE IF s = <<>> THEN TRUE
  ELSE IF Head(s) # Head(t) THEN Code(Head(s)) < Code(Head(t))
  ELSE StrLess(Tail(s), Tail(t))

Digit(d) == <<"0", "1", "2", "3", "4", "5", "6", "7", "8", "9">>[d + 1]

RECURSIVE Decimal(_)
\* Display of a usize.
Decimal(n) ==
  IF n < 10 THEN <<Digit(n)>> ELSE Decimal(n \div 10) \o <<Digit(n % 10)>>

\* ----------------------------------------------------------------- Path
\* A Path is the chain of its segments from the root: Root is the empty
\* chain, Seq{parent, index} and Map{parent, key} add one segment to parent.
PathRoot == <<>>
PathSeq(parent, index) == Append(parent, [t |-> "seq", index |-> index, key |-> <<>>])
PathMap(parent, key) == Append(parent, [t |-> "map", index |-> 0, key |-> key])
\* No location: the place of a node under a key that is not a scalar.
NoPath == <<[t |-> "none", index |-> 0, key |-> <<>>]>>
ParentOf(path) == SubSeq(path, 1, Len(path) - 1)
Last(path) == path[Len(path)]

RECURSIVE Display(_)
\* impl Display for Path, with the inner Parent wrapper.
\* A slip: the root parent is not told apart.
DisplayParentOfAny(path) == Display(path) \o <<"/">>
DisplayParent(path) ==
  IF path = PathRoot THEN <<"/">> ELSE Display(path) \o <<"/">>
\* A slip: a sequence segment written as a mapping segment is, with the
\* root parent told apart.
DisplaySeqLikeMap(path) ==
  DisplayParent(ParentOf(path)) \o Decimal(Last(path).index)
DisplaySeq(path) ==
  Display(ParentOf(path)) \o <<"/">> \o Decimal(Last(path).index)
\* A slip: the key is escaped as a JSON pointer token is, "~" written "~0"
\* and "/" written "~1".
DisplayMapEscaped(path) ==
  LET key == Last(path).key
      esc[n \in 0..Len(key)] ==
        IF n = 0 THEN <<>>
        ELSE esc[n - 1] \o (CASE key[n] = "~" -> <<"~", "0">>
                              [] key[n] = "/" -> <<"~", "1">>
                              [] OTHER -> <<key[n]>>)
  IN DisplayParent(ParentOf(path)) \o esc[Len(key)]
DisplayMap(path) ==
  DisplayParent(ParentOf(path)) \o Last(path).key
Display(path) ==
  IF path = PathRoot THEN <<"/">>
  ELSE IF Last(path).t = "seq" THEN DisplaySeq(path)
  ELSE DisplayMap(path)

\* ------------------------------------------------------- Marker, Position
\* The scanner's marker of the n-th callback, d containers being open.
Marker(n, d) == [index |-> n, line |-> n, col |-> d + 1]
\* impl Into<Position> for Marker.
IntoPosition(m) == [line |-> m.line, col |-> m.col]

\* Option<T>: None is the empty sequence, Some(x) the one-element sequence.
None == <<>>
Some(x) == <<x>>

\* -------------------------------------------------------------- BTreeMap
\* index: BTreeMap<String, Position>, kept as its entries in key order.
HasKey(m, k) == \E i \in DOMAIN m : m[i].key = k
SlotOf(m, k) == CHOOSE i \in DOMAIN m : m[i].key = k
RankOf(m, k) == Cardinality({ i \in DOMAIN m : StrLess(m[i].key, k) })
\* A slip: entries kept in arrival order, one per insertion.
BTreeInsertAppend(m, k, v) == Append(m, [key |-> k, pos |-> v])
BTreeInsert(m, k, v) ==
  IF HasKey(m, k) THEN [m EXCEPT ![SlotOf(m, k)].pos = v]
  ELSE SubSeq(m, 1, RankOf(m, k)) \o <<[key |-> k, pos |-> v]>>
       \o SubSeq(m, RankOf(m, k) + 1, Len(m))
\* A slip: the key is looked up without a trailing separator.
BTreeGetTrimmed(m, k) ==
  LET t == IF Len(k) > 1 /\ k[Len(k)] = "/" THEN SubSeq(k, 1, Len(k) - 1) ELSE k
  IN IF HasKey(m, t) THEN Some(m[SlotOf(m, t)].pos) ELSE None
BTreeGet(m, k) == IF HasKey(m, k) THEN Some(m[SlotOf(m, k)].pos) ELSE None
BTreeKeys(m) == { m[i].key : i \in DOMAIN m }

\* ------------------------------------------------------------ variables
VARIABLES
  pc,        \* where the construction stands: idle, read, decode, parse, collect, done, failed
  result,    \* what the entry point returned: none, Ok, Io, Utf8, Parse
  pstate,    \* yaml_rust parser: init, stream, doc, node, docend, end
  gstack,    \* yaml_rust parser: the containers open in the text
  calls,     \* yaml_rust parser: the callbacks made so far
  pos,       \* Positions.pos, the cursor
  events,    \* Positions.events, the event buffer
  index,     \* Positions.index
  stack,     \* the call stack of collect / collect_seq / collect_map
  roles,     \* history: for each buffer record, what the node is in the text
  log,       \* history: the insertions of the walk, in order
  reads,     \* history: the calls of next, in order
  hist,      \* history: the stages of the construction that failed
  ret,       \* what the last call of get or iter returned
  fpath,     \* a Path value built on its own
  fout       \* what format!("{}", fpath) gave, once it is formatted

parserVars == <<pstate, gstack, calls>>
tableVars == <<pos, events, index>>
fmtVars == <<fpath, fout>>
vars == <<pc, result, pstate, gstack, calls, pos, events, index, stack,
          roles, log, reads, hist, ret, fpath, fout>>

\* ---------------------------------------------------------- yaml_rust
\* The parser's callbacks (parser::Event with the scanner's marker).
YamlEvent(tag, text) == [tag |-> tag, text |-> text, aid |-> 0]
Plain(tag) == YamlEvent(tag, <<>>)
NodeEvents(ctx) ==
  { YamlEvent("Scalar", t) : t \in IF ctx = "key" THEN Texts ELSE ValueTexts }
    \cup { Plain("SequenceStart"), Plain("MappingStart") }
    \cup { Plain("Alias") }

Top(s) == s[Len(s)]
\* A slip: the top is kept.
PopKeeps(s) == s
Pop(s) == SubSeq(s, 1, Len(s) - 1)

\* What the next node is in the text: a document, a sequence element, a
\* mapping key or a mapping value.
Ctx(gs) ==
  IF gs = <<>> THEN "top"
  ELSE IF Top(gs).kind = "seq" THEN "elem"
  ELSE IF Top(gs).n % 2 = 0 THEN "key" ELSE "val"

\* Where the next node is in the text.
NodePath(gs, yev) ==
  CASE Ctx(gs) = "top" -> PathRoot
    [] Ctx(gs) = "elem" ->
         IF Top(gs).path = NoPath THEN NoPath ELSE PathSeq(Top(gs).path, Top(gs).n)
    [] Ctx(gs) = "key" ->
         IF Top(gs).path = NoPath \/ yev.tag # "Scalar" THEN NoPath
         ELSE PathMap(Top(gs).path, yev.text)
    [] Ctx(gs) = "val" -> Top(gs).key

\* The open containers after a node starts in the top container.
Counted(gs, yev) ==
  IF gs = <<>> THEN gs
  ELSE [gs EXCEPT ![Len(gs)] =
          [@ EXCEPT !.n = @ + 1,
                    !.key = IF Ctx(gs) = "key" THEN NodePath(gs, yev) ELSE @]]

\* The open containers after a node event; `at` is the place of the event
\* in the buffer.
AfterNode(gs, yev, at) ==
  CASE yev.tag = "SequenceStart" ->
         Append(Counted(gs, yev),
                [kind |-> "seq", path |-> NodePath(gs, yev), n |-> 0,
                 key |-> NoPath, start |-> at])
    [] yev.tag = "MappingStart" ->
         Append(Counted(gs, yev),
                [kind |-> "map", path |-> NodePath(gs, yev), n |-> 0,
                 key |-> NoPath, start |-> at])
    [] OTHER -> Counted(gs, yev)

IsEnd(yev) == yev.tag \in {"SequenceEnd", "MappingEnd"}
IsNode(yev) == yev.tag \in {"Scalar", "Alias", "SequenceStart", "MappingStart"}

GStackAfter(yev) ==
  IF IsEnd(yev) THEN Pop(gstack)
  ELSE IF IsNode(yev) THEN AfterNode(gstack, yev, Len(events) + 1)
  ELSE gstack

PStateAfter(yev) ==
  CASE yev.tag = "StreamStart" -> "stream"
    [] yev.tag = "StreamEnd" -> "end"
    [] yev.tag = "DocumentStart" -> "doc"
    [] yev.tag = "DocumentEnd" -> "stream"
    [] OTHER -> IF GStackAfter(yev) = <<>> THEN "docend" ELSE "node"

\* The callbacks still to come, at least, before the stream ends.
ToFinish(ps, gs) ==
  CASE ps = "stream" -> 1
    [] ps = "doc" -> 3
    [] ps = "node" -> Len(gs) + (IF Ctx(gs) = "val" THEN 1 ELSE 0) + 2
    [] ps = "docend" -> 2
    [] OTHER -> 0

\* The callbacks the grammar of a YAML event stream allows next
\* (Parser::load, load_document, load_node, load_sequence, load_mapping).
Grammar ==
  CASE pstate = "init" -> { Plain("StreamStart") }
    [] pstate = "stream" -> { Plain("StreamEnd"), Plain("DocumentStart") }
    [] pstate = "doc" -> NodeEvents("top")
    [] pstate = "node" ->
         NodeEvents(Ctx(gstack))
           \cup (IF Top(gstack).kind = "seq" THEN { Plain("SequenceEnd") } ELSE {})
           \cup (IF Ctx(gstack) = "key" THEN { Plain("MappingEnd") } ELSE {})
    [] pstate = "docend" -> { Plain("DocumentEnd") }
    [] OTHER -> {}

\* The callbacks the parser may make next, within the bound; an alias
\* refers to a node before it.
Callbacks ==
  { yev \in Grammar :
      /\ Len(calls) + 1 + ToFinish(PStateAfter(yev), GStackAfter(yev)) <= MaxCallbacks
      /\ yev.tag = "Alias" => events # <<>> }

\* The parser's record of a callback: its tag, its text, the marker it was
\* made with and, for a node, what it is in the text and the buffer place
\* of the start of the container it is a child of.
Made(yev) ==
  [tag |-> yev.tag, text |-> yev.text,
   role |-> IF IsNode(yev) THEN Ctx(gstack) ELSE "none",
   mark |-> Marker(Len(calls) + 1, Len(gstack)),
   in |-> IF IsNode(yev) /\ gstack # <<>> THEN Top(gstack).start ELSE 0]

\* The history entry of a callback: what the node is in the text, where,
\* and the buffer place of the start of the container it is a child of.
RoleOf(yev) ==
  IF IsEnd(yev)
  THEN [role |-> "end", path |-> Top(gstack).path, in |-> Top(gstack).start]
  ELSE [role |-> Ctx(gstack), path |-> NodePath(gstack, yev),
        in |-> IF gstack = <<>> THEN 0 ELSE Top(gstack).start]

\* -------------------------------------------------------------- Positions
\* The internal Event of a callback the receiver keeps (the anchor id of a
\* scalar is not kept).
Event(yev) == [tag |-> yev.tag, text |-> yev.text]

\* A slip: an alias is kept.
DroppedButAlias(yev) ==
  yev.tag \in {"Nothing", "StreamStart", "StreamEnd", "DocumentStart",
               "DocumentEnd"}
Dropped(yev) ==
  yev.tag \in {"Nothing", "StreamStart", "StreamEnd", "DocumentStart",
               "DocumentEnd", "Alias"}

\* impl MarkedEventReceiver for Positions: the buffer after on_event.
OnEvent(evs, yev, marker) ==
  IF Dropped(yev) THEN evs
  ELSE Append(evs, [ev |-> Event(yev), marker |-> marker])

\* Positions::next: what it returns, and the cursor after it.
NextEvent(evs, p) ==
  IF p + 1 \in DOMAIN evs
  THEN Some([ev |-> evs[p + 1].ev, pos |-> IntoPosition(evs[p + 1].marker)])
  ELSE None
\* A slip: the cursor is advanced whatever the buffer holds.
NextPosAlways(evs, p) == p + 1
NextPos(evs, p) == IF p + 1 \in DOMAIN evs THEN p + 1 ELSE p

\* Positions::get.
Get(m, ptr) == BTreeGet(m, ptr)
\* Positions::iter: the pairs the iterator yields, in its order.
Iter(m) == [i \in DOMAIN m |-> <<m[i].key, m[i].pos>>]

\* ------------------------------------------------------------------ Init
Init ==
  /\ pc = "idle" /\ result = "none"
  /\ pstate = "init" /\ gstack = <<>> /\ calls = <<>>
  /\ pos = 0 /\ events = <<>> /\ index = <<>>
  /\ stack = <<>> /\ roles = <<>> /\ log = <<>> /\ reads = <<>> /\ hist = <<>>
  /\ ret = None
  /\ fpath = PathRoot /\ fout = None

\* ------------------------------------------------------ the entry points
\* The ? operator: the function goes on when the value is Ok and returns
\* the error otherwise.
\* A slip: the error is passed over and the function goes on.
TryGoesOn(ok) == TRUE
Try(ok) == ok

Frame(proc, path, idx) ==
  [proc |-> proc, pc |-> "start", path |-> path, index |-> idx, this_path |-> PathRoot]

\* The history entry of a failed stage, with the records the buffer held.
Failure(name) == [stage |-> name, seen |-> Len(events)]

\* from_str is called: Parser::new and Positions::default.
FromStr ==
  /\ pc = "idle"
  /\ pc' = "parse"
  /\ UNCHANGED <<result, parserVars, tableVars, stack, roles, log, reads, hist, ret>>
  /\ UNCHANGED fmtVars

\* from_reader is called.
FromReader ==
  /\ pc = "idle"
  /\ pc' = "read"
  /\ UNCHANGED <<result, parserVars, tableVars, stack, roles, log, reads, hist, ret>>
  /\ UNCHANGED fmtVars

\* from_reader: rdr.read_to_end(&mut bytes)?
ReadToEnd ==
  /\ pc = "read"
  /\ \E ok \in BOOLEAN :
       /\ pc' = IF Try(ok) THEN "decode" ELSE "failed"
       /\ result' = IF Try(ok) THEN result ELSE "Io"
       /\ hist' = IF ok THEN hist ELSE Append(hist, Failure("read"))
  /\ UNCHANGED <<parserVars, tableVars, stack, roles, log, reads, ret>>
  /\ UNCHANGED fmtVars

\* from_reader: std::str::from_utf8(&bytes)? and the call of from_str.
FromUtf8 ==
  /\ pc = "decode"
  /\ \E ok \in BOOLEAN :
       /\ pc' = IF Try(ok) THEN "parse" ELSE "failed"
       /\ result' = IF Try(ok) THEN result ELSE "Utf8"
       /\ hist' = IF ok THEN hist ELSE Append(hist, Failure("decode"))
  /\ UNCHANGED <<parserVars, tableVars, stack, roles, log, reads, ret>>
  /\ UNCHANGED fmtVars

\* parser.load makes one callback of on_event.
Load ==
  /\ pc = "parse"
  /\ \E yev \in Callbacks :
       /\ events' = OnEvent(events, yev, Marker(Len(calls) + 1, Len(gstack)))
       /\ roles' = IF Dropped(yev) THEN roles ELSE Append(roles, RoleOf(yev))
       /\ gstack' = GStackAfter(yev)
       /\ pstate' = PStateAfter(yev)
       /\ calls' = Append(calls, Made(yev))
  /\ UNCHANGED <<pc, result, pos, index, stack, log, reads, hist, ret>>
  /\ UNCHANGED fmtVars

\* parser.load(&mut positions, true)? returns a ScanError: from_str returns
\* it, and the parser and the Positions value are dropped.
LoadFails ==
  /\ pc = "parse" /\ pstate # "end"
  /\ hist' = Append(hist, Failure("load"))
  /\ IF Try(FALSE)
     THEN /\ pc' = "collect"
          /\ stack' = <<Frame("collect", PathRoot, 0)>>
          /\ UNCHANGED <<result, parserVars, tableVars, roles>>
     ELSE /\ pc' = "failed" /\ result' = "Parse"
          /\ pstate' = "init" /\ gstack' = <<>> /\ calls' = <<>>
          /\ pos' = 0 /\ events' = <<>> /\ index' = <<>> /\ roles' = <<>>
          /\ UNCHANGED stack
  /\ UNCHANGED <<log, reads, ret>>
  /\ UNCHANGED fmtVars

\* A slip: collect is called while load still has callbacks to make.
LoadReturnsEarly ==
  /\ pc = "parse"
  /\ pc' = "collect"
  /\ stack' = <<Frame("collect", PathRoot, 0)>>
  /\ UNCHANGED <<result, parserVars, tableVars, roles, log, reads, hist, ret>>
  /\ UNCHANGED fmtVars
\* parser.load(&mut positions, true)? returns Ok(()): positions.collect(&Path::Root).
LoadReturns ==
  /\ pc = "parse" /\ pstate = "end"
  /\ pc' = "collect"
  /\ stack' = <<Frame("collect", PathRoot, 0)>>
  /\ UNCHANGED <<result, parserVars, tableVars, roles, log, reads, hist, ret>>
  /\ UNCHANGED fmtVars

\* ---------------------------------------------------------------- the walk
Got == NextEvent(events, pos)
GotTag == IF Got = None THEN "None" ELSE Got[1].ev.tag
Running(proc, at) ==
  /\ pc = "collect" /\ stack # <<>>
  /\ Top(stack).proc = proc /\ Top(stack).pc = at
\* Positions::next is called by the running procedure.
CallNext ==
  /\ pos' = NextPos(events, pos)
  /\ reads' = Append(reads, [at |-> pos, got |-> Got, by |-> Top(stack).proc,
                             depth |-> Len(stack)])
SetTop(s, at) == [s EXCEPT ![Len(s)].pc = at]
\* The running procedure calls another one and goes on at `at` afterwards.
Call(at, frame) == stack' = Append(SetTop(stack, at), frame)

\* collect: the call of next and the match on the event.
Collect ==
  /\ Running("collect", "start")
  /\ CallNext
  /\ CASE GotTag = "SequenceStart" ->
            Call("tail", Frame("collect_seq", Top(stack).path, 0))
       [] GotTag = "MappingStart" ->
            Call("tail", Frame("collect_map", Top(stack).path, 0))
       [] OTHER -> stack' = SetTop(stack, "ret")
  /\ UNCHANGED <<pc, result, parserVars, events, index, roles, log, hist, ret>>
  /\ UNCHANGED fmtVars

\* A slip: collect returns after the first container.
CollectTailReturns ==
  /\ Running("collect", "tail")
  /\ stack' = SetTop(stack, "ret")
  /\ UNCHANGED <<pc, result, parserVars, tableVars, roles, log, reads, hist, ret>>
  /\ UNCHANGED fmtVars
\* collect: self.collect(path) after the container.
CollectTail ==
  /\ Running("collect", "tail")
  /\ Call("ret", Frame("collect", Top(stack).path, 0))
  /\ UNCHANGED <<pc, result, parserVars, tableVars, roles, log, reads, hist, ret>>
  /\ UNCHANGED fmtVars

\* A slip: the position of the event before the element.
SeqEntryPosOfPrevious == IntoPosition(events[pos].marker)
\* The position collect_seq records for a scalar element.
SeqEntryPos == Got[1].pos
\* The path collect_seq records a scalar element under.
SeqEntryPath(path, idx) == PathSeq(path, idx)
\* A slip: the index is not advanced.
NextIndexSame(idx) == idx
\* The index collect_seq goes on with after an element.
NextIndex(idx) == idx + 1

\* A slip: a nested sequence is entered as a mapping element is.
SeqElementIsContainer == GotTag \in {"MappingStart", "SequenceStart"}
\* A slip: a mapping element is recorded as a scalar element is.
SeqElementIsNode == GotTag \in {"Scalar", "MappingStart"}
\* collect_seq: the arm Event::Scalar matches.
SeqElementIsScalar == GotTag = "Scalar"
\* collect_seq: the arm Event::MappingStart matches.
SeqElementIsMapping == GotTag = "MappingStart"

\* collect_seq: the call of next and the match on the event.
CollectSeq ==
  /\ Running("collect_seq", "start")
  /\ CallNext
  /\ LET f == Top(stack) IN
     CASE SeqElementIsScalar ->
            /\ index' = BTreeInsert(index, Display(SeqEntryPath(f.path, f.index)),
                                    SeqEntryPos)
            /\ log' = Append(log, [by |-> "collect_seq", ev |-> pos + 1,
                                   path |-> SeqEntryPath(f.path, f.index),
                                   key |-> Display(SeqEntryPath(f.path, f.index))])
            /\ Call("ret", Frame("collect_seq", f.path, NextIndex(f.index)))
       [] SeqElementIsMapping ->
            /\ Call("tail", Frame("collect_map", PathSeq(f.path, f.index), 0))
            /\ UNCHANGED <<index, log>>
       [] OTHER ->
            /\ stack' = SetTop(stack, "ret")
            /\ UNCHANGED <<index, log>>
  /\ UNCHANGED <<pc, result, parserVars, events, roles, hist, ret>>
  /\ UNCHANGED fmtVars

\* collect_seq: self.collect_seq(index + 1, &path) after a mapping element.
CollectSeqTail ==
  /\ Running("collect_seq", "tail")
  /\ LET f == Top(stack) IN
       Call("ret", Frame("collect_seq", f.path, NextIndex(f.index)))
  /\ UNCHANGED <<pc, result, parserVars, tableVars, roles, log, reads, hist, ret>>
  /\ UNCHANGED fmtVars

\* A slip: the position of the value that follows the key.
MapEntryPosOfValue ==
  IF pos + 2 \in DOMAIN events THEN IntoPosition(events[pos + 2].marker) ELSE Got[1].pos
\* The position collect_map records for a key.
MapEntryPos == Got[1].pos

\* collect_map: the call of next and the match on the event.
CollectMap ==
  /\ Running("collect_map", "start")
  /\ CallNext
  /\ LET f == Top(stack) IN
     CASE GotTag = "Scalar" ->
            LET this_path == PathMap(f.path, Got[1].ev.text) IN
            /\ index' = BTreeInsert(index, Display(this_path), MapEntryPos)
            /\ log' = Append(log, [by |-> "collect_map", ev |-> pos + 1,
                                   path |-> this_path, key |-> Display(this_path)])
            /\ stack' = [stack EXCEPT ![Len(stack)] =
                           [@ EXCEPT !.pc = "value", !.this_path = this_path]]
       [] OTHER ->
            /\ stack' = SetTop(stack, "ret")
            /\ UNCHANGED <<index, log>>
  /\ UNCHANGED <<pc, result, parserVars, events, roles, hist, ret>>
  /\ UNCHANGED fmtVars

\* A slip: the value is not read before the next key is.
CollectMapValueUnread ==
  /\ Running("collect_map", "value")
  /\ Call("ret", Frame("collect_map", Top(stack).path, 0))
  /\ UNCHANGED <<pc, result, parserVars, tableVars, roles, log, reads, hist, ret>>
  /\ UNCHANGED fmtVars
\* collect_map: the second call of next, which classifies the value.
CollectMapValue ==
  /\ Running("collect_map", "value")
  /\ CallNext
  /\ LET f == Top(stack) IN
     CASE GotTag = "MappingStart" ->
            Call("tail", Frame("collect_map", f.this_path, 0))
       [] GotTag = "SequenceStart" ->
            Call("tail", Frame("collect_seq", f.this_path, 0))
       [] OTHER -> Call("ret", Frame("collect_map", f.path, 0))
  /\ UNCHANGED <<pc, result, parserVars, events, index, roles, log, hist, ret>>
  /\ UNCHANGED fmtVars

\* collect_map: self.collect_map(&path) after a container value.
CollectMapTail ==
  /\ Running("collect_map", "tail")
  /\ Call("ret", Frame("collect_map", Top(stack).path, 0))
  /\ UNCHANGED <<pc, result, parserVars, tableVars, roles, log, reads, hist, ret>>
  /\ UNCHANGED fmtVars

\* The running procedure returns to its caller.
Return ==
  /\ pc = "collect" /\ stack # <<>> /\ Top(stack).pc = "ret"
  /\ stack' = Pop(stack)
  /\ UNCHANGED <<pc, result, parserVars, tableVars, roles, log, reads, hist, ret>>
  /\ UNCHANGED fmtVars

\* from_str: collect has returned, Ok(positions).
FromStrReturns ==
  /\ pc = "collect" /\ stack = <<>>
  /\ pc' = "done" /\ result' = "Ok"
  /\ UNCHANGED <<parserVars, tableVars, stack, roles, log, reads, hist, ret>>
  /\ UNCHANGED fmtVars

\* ------------------------------------------------------------- the queries
\* The pointers get is called with.
Queries ==
  { <<"/", "~">>, <<"/", "~", "/", "0">>, <<"/", "~", "/">>, <<"~">>,
    <<"/", "0">>, <<"/", "/", "0">> }

\* positions.get(ptr) on the returned table.
GetCall ==
  /\ pc = "done"
  /\ \E q \in Queries : ret' = Some([op |-> "get", arg |-> q, val |-> Get(index, q)])
  /\ UNCHANGED <<pc, result, parserVars, tableVars, stack, roles, log, reads, hist>>
  /\ UNCHANGED fmtVars

\* positions.iter() on the returned table, run to its end.
IterCall ==
  /\ pc = "done"
  /\ ret' = Some([op |-> "iter", arg |-> <<>>, val |-> Iter(index)])
  /\ UNCHANGED <<pc, result, parserVars, tableVars, stack, roles, log, reads, hist>>
  /\ UNCHANGED fmtVars

Next ==
  \/ FromStr \/ FromReader \/ ReadToEnd \/ FromUtf8
  \/ Load \/ LoadFails \/ LoadReturns
  \/ Collect \/ CollectTail
  \/ CollectSeq \/ CollectSeqTail
  \/ CollectMap \/ CollectMapValue \/ CollectMapTail
  \/ Return \/ FromStrReturns
  \/ GetCall \/ IterCall

Spec == Init /\ [][Next]_vars

\* --------------------------------------------- Path values on their own
\* The indices a Path value built on its own draws from.
Indices == {0, 1, 10}

InitPath ==
  /\ pc = "fmt" /\ result = "none"
  /\ pstate = "init" /\ gstack = <<>> /\ calls = <<>>
  /\ pos = 0 /\ events = <<>> /\ index = <<>>
  /\ stack = <<>> /\ roles = <<>> /\ log = <<>> /\ reads = <<>> /\ hist = <<>>
  /\ ret = None
  /\ fpath = PathRoot /\ fout = None

\* Path::Seq { parent: &fpath, index }.
NewSeq ==
  /\ pc = "fmt" /\ Len(fpath) < MaxPathLen
  /\ \E i \in Indices : fpath' = PathSeq(fpath, i)
  /\ fout' = None
  /\ UNCHANGED <<pc, result, parserVars, tableVars, stack, roles, log, reads, hist, ret>>

\* Path::Map { parent: &fpath, key }.
NewMap ==
  /\ pc = "fmt" /\ Len(fpath) < MaxPathLen
  /\ \E k \in Texts : fpath' = PathMap(fpath, k)
  /\ fout' = None
  /\ UNCHANGED <<pc, result, parserVars, tableVars, stack, roles, log, reads, hist, ret>>

\* format!("{}", fpath).
Format ==
  /\ pc = "fmt" /\ fout = None
  /\ fout' = Some(Display(fpath))
  /\ UNCHANGED <<pc, result, parserVars, tableVars, stack, roles, log, reads, hist, ret, fpath>>

NextPath == NewSeq \/ NewMap \/ Format

SpecPath == InitPath /\ [][NextPath]_vars

\* ------------------------------------- a receiver driven without the parser
\* on_event is a public entry of Positions: a receiver made by
\* Positions::default() can be handed any callbacks in any order, and the
\* walk then runs over whatever buffer they left.
AnyCallbacks ==
  { Plain(t) : t \in {"Nothing", "StreamStart", "StreamEnd", "DocumentStart",
                      "DocumentEnd", "Alias", "SequenceStart", "SequenceEnd",
                      "MappingStart", "MappingEnd"} }
    \cup { YamlEvent("Scalar", t) : t \in ValueTexts }

InitEvents ==
  /\ pc = "recv" /\ result = "none"
  /\ pstate = "init" /\ gstack = <<>> /\ calls = <<>>
  /\ pos = 0 /\ events = <<>> /\ index = <<>>
  /\ stack = <<>> /\ roles = <<>> /\ log = <<>> /\ reads = <<>> /\ hist = <<>>
  /\ ret = None
  /\ fpath = PathRoot /\ fout = None

\* positions.on_event(yev, marker).
OnEventCall ==
  /\ pc = "recv" /\ Len(calls) < MaxArrivals
  /\ \E yev \in AnyCallbacks :
       /\ events' = OnEvent(events, yev, Marker(Len(calls) + 1, Len(gstack)))
       /\ calls' = Append(calls, Made(yev))
  /\ UNCHANGED <<pc, result, pstate, gstack, pos, index, stack, roles, log, reads, hist, ret>>
  /\ UNCHANGED fmtVars

\* positions.collect(&Path::Root) on the buffer the callbacks left.
CollectCall ==
  /\ pc = "recv"
  /\ pc' = "collect"
  /\ stack' = <<Frame("collect", PathRoot, 0)>>
  /\ UNCHANGED <<result, parserVars, tableVars, roles, log, reads, hist, ret>>
  /\ UNCHANGED fmtVars

\* The steps of the walk and of its return.
Walk ==
  \/ Collect \/ CollectTail
  \/ CollectSeq \/ CollectSeqTail
  \/ CollectMap \/ CollectMapValue \/ CollectMapTail
  \/ Return \/ FromStrReturns

NextEvents == OnEventCall \/ CollectCall \/ Walk

SpecEvents == InitEvents /\ [][NextEvents]_vars

\* The walk is sequential code: once called it runs on until it returns.
SpecEventsFair == SpecEvents /\ WF_vars(Walk)

\* ===================================================================
\* The claims.  What the text holds is read from the history `roles`: the
\* parser knows what each node it reports is (a document, a key, a value,
\* an element) and where it lies.
\* ===================================================================
PosOf(i) == [line |-> events[i].marker.line, col |-> events[i].marker.col]
TagOf(i) == events[i].ev.tag
\* The scalar tokens that are keys of a mapping with a location.
KeyTokens ==
  { i \in DOMAIN events :
      roles[i].role = "key" /\ TagOf(i) = "Scalar" /\ roles[i].path # NoPath }
\* The scalar tokens that are direct elements of a sequence with a location.
ElemTokens ==
  { i \in DOMAIN events :
      roles[i].role = "elem" /\ TagOf(i) = "Scalar" /\ roles[i].path # NoPath }
\* The stream holds no alias reference.
NoAlias == \A k \in DOMAIN calls : calls[k].tag # "Alias"
\* The documents the walk mirrors: every document is a mapping or a
\* sequence, every key a scalar, every element a scalar or a mapping, and
\* no alias reference was dropped.
Supported ==
  /\ NoAlias
  /\ \A i \in DOMAIN events :
       /\ roles[i].role = "top" => TagOf(i) \in {"SequenceStart", "MappingStart"}
       /\ roles[i].role = "key" => TagOf(i) = "Scalar"
       /\ roles[i].role = "elem" => TagOf(i) \in {"Scalar", "MappingStart"}
\* The stream holds one document.
OneDocument == Cardinality({ k \in DOMAIN calls : calls[k].tag = "DocumentStart" }) = 1
\* A key or element token after token i renders the same path string.
LaterSame(i) ==
  \E j \in KeyTokens \cup ElemTokens :
    j > i /\ Display(roles[j].path) = Display(roles[i].path)

\* The key-position rule, for a given set of documents.
KeyPositionRule ==
  /\ \A i \in KeyTokens :
       ~LaterSame(i) => Get(index, Display(roles[i].path)) = Some(PosOf(i))
  /\ \A l \in DOMAIN log :
       log[l].by = "collect_map" => roles[log[l].ev].role = "key"

\* C1 as stated: for every mapping entry of any document indexed by
\* from_str, get(render(Map(P, K))) is the position of K's key token, and
\* every entry inserted by collect_map carries the position of a mapping
\* key.  (Read in the claim's favour: the stream holds one document, and
\* an entry that a later entry of the same path string replaces is not
\* counted against it.)
C1_KeyPositionAnyDocument == pc = "done" /\ OneDocument => KeyPositionRule

\* C1, amended: in a document the walk mirrors (Supported), for every
\* mapping entry get(render(Map(P, K))) is the position of K's key token,
\* never the value's, unless a later entry renders the same path string;
\* and every entry inserted by collect_map carries the position of a
\* mapping key.
C1_KeyPositionSupported == pc = "done" /\ Supported => KeyPositionRule

\* C1's case: a key with a scalar value, in a mapping that is an element
\* of a sequence that is the value of a root key (as "/foo/0/boom").
C1_Witness ==
  /\ pc = "done" /\ Supported
  /\ \E i \in KeyTokens :
       /\ Len(roles[i].path) = 3 /\ roles[i].path[2].t = "seq"
       /\ i + 1 \in DOMAIN events /\ TagOf(i + 1) = "Scalar"
       /\ Get(index, Display(roles[i].path)) = Some(PosOf(i))
       /\ Get(index, Display(roles[i].path)) # Some(PosOf(i + 1))

\* Completeness for sequence scalars, for a given set of documents.
ElementRule ==
  \A i \in ElemTokens :
    ~LaterSame(i) =>
      /\ HasKey(index, Display(roles[i].path))
      /\ Get(index, Display(roles[i].path)) = Some(PosOf(i))

\* C2 as stated: for every scalar that is a direct element, at index i, of
\* a sequence at path P, whatever contains the sequence, the index holds
\* render(Seq(P, i)) with the scalar's own position.  (Read in the claim's
\* favour, as C1.)
C2_ElementsAnySequence == pc = "done" /\ OneDocument => ElementRule

\* C2, amended: in a stream the walk mirrors (Supported), for every scalar
\* that is a direct element, at index i, of a sequence at path P, the
\* index holds render(Seq(P, i)) with the scalar's own position, unless a
\* later entry renders the same path string.
C2_ElementsSupported == pc = "done" /\ Supported => ElementRule

\* C2's case: the second scalar of a sequence that is the value of a key.
C2_Witness ==
  /\ pc = "done" /\ Supported
  /\ \E i \in ElemTokens :
       /\ Len(roles[i].path) = 2 /\ roles[i].path[1].t = "map"
       /\ roles[i].path[2].index = 1
       /\ Get(index, Display(roles[i].path)) = Some(PosOf(i))

RECURSIVE SeqAbove(_)
\* The nearest sequence around the container that starts at buffer place c
\* (c itself when it is a sequence), 0 when there is none.
SeqAbove(c) ==
  IF c = 0 THEN 0
  ELSE IF TagOf(c) = "SequenceStart" THEN c
  ELSE SeqAbove(roles[c].in)
\* Every element of the sequence that starts at s is a scalar or a mapping.
PlainSequence(s) ==
  /\ \A j \in DOMAIN events :
       roles[j].role = "elem" /\ roles[j].in = s
         => TagOf(j) \in {"Scalar", "MappingStart"}
  /\ \A k \in DOMAIN calls : ~(calls[k].tag = "Alias" /\ calls[k].in = s)
\* The key tokens that lie in an element of a sequence of scalars and
\* mappings.
ElementKeys ==
  { i \in KeyTokens :
      SeqAbove(roles[i].in) # 0 /\ PlainSequence(SeqAbove(roles[i].in)) }
ElementKeyRule ==
  \A i \in ElementKeys :
    ~LaterSame(i) => Get(index, Display(roles[i].path)) = Some(PosOf(i))

\* C3 as stated: in a sequence at path P whose elements are scalars or
\* mappings, at any nesting depth, the keys of the mapping that is the
\* i-th element are recorded under render(Map(Seq(P, i), key)) with the
\* position of the key token.  (Read in the claim's favour, as C1.)
C3_ElementKeysAnyDepth == pc = "done" /\ OneDocument => ElementKeyRule

\* C3, amended: in a stream the walk mirrors (Supported), the element
\* counter of collect_seq starts at 0 and grows by one per element, scalar
\* or mapping, so every entry is recorded under the path of its token in
\* the text, and the keys of a mapping that is the i-th element of a
\* sequence at P are found at render(Map(Seq(P, i), key)) with the position
\* of the key token, unless a later entry renders the same path string.
C3_ElementKeysSupported ==
  pc = "done" /\ Supported =>
    /\ ElementKeyRule
    /\ \A l \in DOMAIN log : log[l].path = roles[log[l].ev].path

\* C3's case: a key of a mapping that is the second element of a sequence,
\* after a scalar element.
C3_Witness ==
  /\ pc = "done" /\ Supported
  /\ \E i \in ElementKeys :
       /\ roles[i].path[Len(roles[i].path) - 1].t = "seq"
       /\ roles[i].path[Len(roles[i].path) - 1].index = 1
       /\ \E j \in ElemTokens : roles[j].in = SeqAbove(roles[i].in)
       /\ Get(index, Display(roles[i].path)) = Some(PosOf(i))

RECURSIVE RefRender(_)
\* The reference rule set of the path model, rule by rule.
RefRender(path) ==
  IF path = PathRoot THEN <<"/">>
  ELSE IF Last(path).t = "map"
    THEN IF ParentOf(path) = PathRoot
           THEN <<"/">> \o Last(path).key
           ELSE RefRender(ParentOf(path)) \o <<"/">> \o Last(path).key
    ELSE RefRender(ParentOf(path)) \o <<"/">> \o Decimal(Last(path).index)

\* C4: for every Path value, what Display writes is what the reference
\* rules give: "/" for Root; "/" + key for a Map under Root and
\* render(parent) + "/" + key under any other parent; render(parent) + "/" +
\* decimal(index) for a Seq under every parent, Root included.
C4_DisplayIsReference == fout # None => fout = Some(RefRender(fpath))

\* C4's case: a formatted path with a Seq of a two-digit index under Root
\* and a Map above it.
C4_Witness ==
  /\ fout = Some(Display(fpath))
  /\ Len(fpath) = 3
  /\ fpath[1].t = "seq" /\ fpath[1].index = 10
  /\ fpath[2].t = "map" /\ fpath[3].t = "seq"
  /\ SubSeq(fout[1], 1, 5) = <<"/", "/", "1", "0", "/">>

\* The index of the element token i when it is a direct element of a
\* sequence at the root.
RootElems == { i \in ElemTokens : Len(roles[i].path) = 1 }
\* The top-level document is a sequence.
TopIsSequence ==
  OneDocument /\ events # <<>> /\ TagOf(1) = "SequenceStart"
RootSequenceRule ==
  \A i \in RootElems :
    /\ Get(index, <<"/", "/">> \o Decimal(roles[i].path[1].index)) = Some(PosOf(i))
    /\ Get(index, <<"/">> \o Decimal(roles[i].path[1].index)) = None

Recorded(q) == { l \in DOMAIN log : log[l].key = q }
LastRecorded(q) == CHOOSE l \in Recorded(q) : \A m \in Recorded(q) : m <= l
\* The position the walk recorded last under q, if any.
RecordedPos(q) ==
  IF Recorded(q) = {} THEN None ELSE Some(PosOf(log[LastRecorded(q)].ev))

\* C6: get(q) returns the position recorded under q when q is character
\* for character a string the walk inserted, and the absent result
\* otherwise; it yields no error and leaves the index, the cursor and the
\* event buffer as they were.
C6_GetExactMatch ==
  [][ (ret' # ret /\ ret' # None /\ ret'[1].op = "get") =>
        /\ ret'[1].val = RecordedPos(ret'[1].arg)
        /\ ret'[1].val = None \/ \E p \in {PosOf(i) : i \in DOMAIN events} : ret'[1].val = Some(p)
        /\ UNCHANGED <<index, pos, events, pc, result>> ]_vars

\* C6's case: get("/~/") is absent although "/~" and "/~/0" are keys of
\* the index.
C6_Witness ==
  /\ pc = "done"
  /\ ret = Some([op |-> "get", arg |-> <<"/", "~", "/">>, val |-> None])
  /\ HasKey(index, <<"/", "~">>) /\ HasKey(index, <<"/", "~", "/", "0">>)

\* ret holds what an iteration yielded.
Iterated(r) == r # None /\ r[1].op = "iter"
\* The pairs an iteration yielded are the inserted strings, each once, in
\* strictly ascending order, each with the position recorded last.
IterRule(val) ==
  /\ \A a, b \in DOMAIN val : a < b => StrLess(val[a][1], val[b][1])
  /\ { val[a][1] : a \in DOMAIN val } = { log[l].key : l \in DOMAIN log }
  /\ \A a \in DOMAIN val : Some(val[a][2]) = RecordedPos(val[a][1])

\* C7: iter yields every entry of the index exactly once, in strictly
\* ascending order of the path strings, and an iteration after another
\* over the finished table yields the same sequence.
C7_IterAscendingOnce ==
  /\ [](Iterated(ret) => IterRule(ret[1].val))
  /\ [][Iterated(ret) /\ Iterated(ret') => ret'[1].val = ret[1].val]_vars

\* C7's case: an iteration over a table of several entries that were not
\* inserted in ascending order, one of them inserted twice.
C7_Witness ==
  /\ pc = "done" /\ Iterated(ret)
  /\ Len(ret[1].val) >= 2 /\ Len(log) > Len(ret[1].val)
  /\ \E l \in DOMAIN log : l > 1 /\ StrLess(log[l].key, log[l - 1].key)

\* The error each stage fails with.
ErrorOf(stage) ==
  CASE stage = "read" -> "Io" [] stage = "decode" -> "Utf8" [] stage = "load" -> "Parse"
\* The state after a failed stage: the error of that stage is returned,
\* collect has not run (no frame, no cursor advance, no insertion), and no
\* table is left, whatever the buffer held when the stage failed.
FailedClean ==
  /\ Len(hist) = 1
  /\ pc = "failed" /\ result = ErrorOf(hist[1].stage)
  /\ stack = <<>> /\ reads = <<>> /\ log = <<>> /\ pos = 0
  /\ events = <<>> /\ index = <<>> /\ ret = None
  /\ hist[1].stage \in {"read", "decode"} => calls = <<>> /\ hist[1].seen = 0
\* The step in which a stage fails is taken from that stage.
StagedFailure ==
  /\ hist'[Len(hist')].stage = "read" => pc = "read"
  /\ hist'[Len(hist')].stage = "decode" => pc = "decode"
  /\ hist'[Len(hist')].stage = "load" => pc = "parse"

\* C8: a failure of read_to_end returns Io before any decoding, a failure
\* of from_utf8 returns Utf8 before any parsing, a failure of load returns
\* Parse before collect runs; in each case collect is not invoked, no
\* table is returned, not even one built from the events received before
\* the failure, and nothing is done after the failure.
C8_FailuresStagedTerminal ==
  /\ [](hist # <<>> => FailedClean)
  /\ [](pc = "failed" => hist # <<>>)
  /\ [][(hist' # hist => StagedFailure) /\ pc # "failed"]_vars

\* C8's case: load failed after the buffer had received events.
C8_Witness ==
  /\ pc = "failed" /\ result = "Parse"
  /\ hist # <<>> /\ hist[1].stage = "load" /\ hist[1].seen > 2
  /\ events = <<>> /\ index = <<>>

\* The end of the string s, n characters long.
Suffix(s, n) == SubSeq(s, Len(s) - n + 1, Len(s))
\* The insertion l of collect_map wrote the text of its key token as it is,
\* after the rendering of the mapping's path and one separator.
LiteralKey(l) ==
  LET text == events[log[l].ev].ev.text
      parent == Display(ParentOf(log[l].path))
  IN /\ Last(log[l].path).key = text
     /\ Len(log[l].key) >= Len(text) /\ Suffix(log[l].key, Len(text)) = text
     /\ Len(log[l].key) = Len(text) + (IF ParentOf(log[l].path) = PathRoot THEN 1 ELSE Len(parent) + 1)
\* The index holds one entry per inserted string, with the position
\* inserted last.
LaterWins ==
  \A l \in DOMAIN log :
    /\ Cardinality({ i \in DOMAIN index : index[i].key = log[l].key }) = 1
    /\ Get(index, log[l].key) = RecordedPos(log[l].key)

NextCalled == reads' # reads
NextRule ==
  LET r == reads'[Len(reads')]
  IN /\ reads' = Append(reads, r) /\ r.at = pos
     /\ IF pos < Len(events)
        THEN /\ r.got = Some([ev |-> events[pos + 1].ev,
                              pos |-> IntoPosition(events[pos + 1].marker)])
             /\ pos' = pos + 1
        ELSE r.got = None /\ pos' = pos
\* No record of the buffer was returned by two calls of next.
ConsumedOnce ==
  \A a, b \in DOMAIN reads :
    a < b /\ reads[a].got # None /\ reads[b].got # None => reads[a].at < reads[b].at

\* C10: throughout indexing 0 <= cursor <= length of the buffer; a call of
\* next that returns an event returns the one at the old cursor and adds
\* one to the cursor; a call on an exhausted buffer returns nothing and
\* leaves the cursor; the cursor never decreases, no record is consumed
\* twice, and collect, collect_seq and collect_map leave the buffer as it
\* is.
C10_CursorInvariant ==
  /\ [](0 <= pos /\ pos <= Len(events))
  /\ [](ConsumedOnce)
  /\ [][ /\ pos' >= pos
         /\ NextCalled => NextRule
         /\ ~NextCalled => pos' = pos
         /\ pc = "collect" => events' = events ]_vars

\* C10's case: the walk has consumed the whole buffer and next was called
\* on the exhausted buffer more than once.
C10_Witness ==
  /\ pc = "done" /\ Len(events) >= 3 /\ pos = Len(events)
  /\ \E a, b \in DOMAIN reads :
       /\ a < b /\ reads[a].got = None /\ reads[b].got = None
       /\ reads[a].at = Len(events) /\ reads[b].at = Len(events)
  /\ \E a \in DOMAIN reads : reads[a].got # None /\ reads[a].at = Len(events) - 1

RECURSIVE Open(_)
\* The container starts among the first n records of the buffer that no
\* end record among them closes.
Open(n) ==
  IF n = 0 THEN 0
  ELSE IF TagOf(n) \in {"SequenceStart", "MappingStart"} THEN Open(n - 1) + 1
  ELSE IF TagOf(n) \in {"SequenceEnd", "MappingEnd"} THEN Open(n - 1) - 1
  ELSE Open(n - 1)
\* The nesting depth of the buffer.
NestingDepth ==
  CHOOSE d \in 0..Len(events) :
    /\ \A n \in 0..Len(events) : Open(n) <= d
    /\ \E n \in 0..Len(events) : Open(n) = d
\* The invocations of collect, collect_seq and collect_map that are active.
ActiveInvocations == Len(stack)

\* C11 as stated: at every point of collect(Root) the active invocations of
\* collect, collect_seq and collect_map are no more than the nesting depth
\* of the document plus a constant (here 2: collect itself and the
\* invocation that reads the end of the innermost container), however many
\* keys, elements and documents there are.
C11_DepthBoundedByNesting ==
  pc = "collect" /\ Supported => ActiveInvocations <= NestingDepth + 2

NestedReads ==
  { r \in DOMAIN reads :
      /\ reads[r].by = "collect_seq" /\ reads[r].got # None
      /\ reads[r].got[1].ev.tag = "SequenceStart" }
\* The step is a call of next in which collect_seq gets a SequenceStart.
NestedStep ==
  /\ reads' # reads
  /\ Len(reads') \in { r \in DOMAIN reads' :
                         /\ reads'[r].by = "collect_seq" /\ reads'[r].got # None
                         /\ reads'[r].got[1].ev.tag = "SequenceStart" }

\* C13 as stated: when collect_seq meets a sequence as an element it
\* records nothing and does not recurse, and neither the nested start, nor
\* the scalars inside the nested sequence, nor the events after it get an
\* index entry under any path.
C13_NothingAfterNestedSequence ==
  \A r \in NestedReads : \A l \in DOMAIN log : log[l].ev <= reads[r].at

\* C13, amended: when collect_seq meets a sequence as an element it records
\* no entry for the SequenceStart, calls neither collect_seq nor
\* collect_map for it, and returns; no entry is ever recorded for the
\* nested start itself.  (The events inside and after the nested sequence
\* are left to the callers, which can record scalars among them.)
C13_NestedSequenceSkipped ==
  /\ [](\A r \in NestedReads : \A l \in DOMAIN log : log[l].ev # reads[r].at + 1)
  /\ [][NestedStep =>
          /\ index' = index /\ log' = log /\ pos' = pos + 1
          /\ Len(stack') = Len(stack) /\ Top(stack').pc = "ret"
          /\ Top(stack').proc = "collect_seq"]_vars

\* C13's case: the walk has met a nested sequence in a parsed document,
\* and a scalar inside it was recorded afterwards by a caller.
C13_Witness ==
  /\ pc = "done" /\ OneDocument /\ NoAlias
  /\ \E r \in NestedReads :
       /\ roles[reads[r].at + 1].role = "elem"
       /\ \E l \in DOMAIN log :
            /\ log[l].ev > reads[r].at + 1
            /\ roles[log[l].ev].in = reads[r].at + 1
            /\ Get(index, log[l].key) = Some(PosOf(log[l].ev))

\* The callbacks that carry structure, and the record each leaves.
Significant(c) ==
  c.tag \in {"Scalar", "SequenceStart", "SequenceEnd", "MappingStart", "MappingEnd"}
RecordOf(c) == [ev |-> [tag |-> c.tag, text |-> c.text], marker |-> c.mark]
\* The records of the significant callbacks, in the order of arrival.
KeptRecords ==
  LET kept == SelectSeq(calls, Significant)
  IN [i \in DOMAIN kept |-> RecordOf(kept[i])]

\* C14: on_event with Nothing, StreamStart, StreamEnd, DocumentStart,
\* DocumentEnd or Alias leaves the buffer as it is; with Scalar,
\* SequenceStart, SequenceEnd, MappingStart or MappingEnd it appends one
\* record, the matching event with the given marker; the records already
\* there, the cursor and the index are unchanged; so the buffer is always
\* the significant callbacks in their order of arrival.
C14_NormalizerAppendsInOrder ==
  /\ [](events = KeptRecords)
  /\ [][calls' # calls =>
          LET c == calls'[Len(calls')] IN
          /\ calls' = Append(calls, c)
          /\ IF Significant(c) THEN events' = Append(events, RecordOf(c))
             ELSE events' = events
          /\ pos' = pos /\ index' = index]_vars

\* C14's case: four callbacks out of any grammar, two of them dropped (a
\* Nothing and an Alias), two kept in their order.
C14_Witness ==
  /\ pc = "recv" /\ Len(calls) = 4 /\ Len(events) = 2
  /\ calls[1].tag = "Nothing" /\ calls[2].tag = "MappingEnd"
  /\ calls[3].tag = "Alias" /\ calls[4].tag = "Scalar"
  /\ TagOf(1) = "MappingEnd" /\ TagOf(2) = "Scalar"
  /\ events[2].marker = calls[4].mark

\* What next returned is the start of a container.
ContainerStart(g) ==
  g # None /\ g[1].ev.tag \in {"SequenceStart", "MappingStart"}
\* The calls of next made by collect: the events the top-level loop sees.
TopReads == { r \in DOMAIN reads : reads[r].by = "collect" }
\* The calls of next at which the top-level loop stops.
StopReads == { r \in TopReads : ~ContainerStart(reads[r].got) }
\* The step in which collect calls next: a container start is handed to
\* collect_seq (from index 0) or collect_map under the Root path and
\* collect is to go on afterwards; anything else, or nothing, ends it.
TopStep ==
  LET r == reads'[Len(reads')] IN
  /\ index' = index /\ log' = log
  /\ IF ContainerStart(r.got)
     THEN /\ Len(stack') = Len(stack) + 1
          /\ stack'[Len(stack)].proc = "collect" /\ stack'[Len(stack)].pc = "tail"
          /\ Top(stack').path = PathRoot /\ Top(stack').index = 0
          /\ Top(stack').pc = "start"
          /\ Top(stack').proc =
               (IF r.got[1].ev.tag = "SequenceStart" THEN "collect_seq" ELSE "collect_map")
     ELSE /\ Len(stack') = Len(stack) /\ Top(stack').pc = "ret"
\* The step after the container has returned: collect is called again
\* under the same path.
TopAgain ==
  /\ Len(stack') = Len(stack) + 1
  /\ Top(stack').proc = "collect" /\ Top(stack').pc = "start"
  /\ Top(stack').path = PathRoot
  /\ UNCHANGED <<pos, index, log, reads>>
\* In a stream the walk mirrors, up to its first scalar document: the
\* documents are the events collect reads, in their order.
TopsInOrder ==
  LET tops == { i \in DOMAIN events : roles[i].role = "top" }
      seen == { i \in tops : \A j \in tops : j < i => TagOf(j) # "Scalar" }
  IN /\ { reads[r].at + 1 : r \in TopReads } \cap DOMAIN events = seen
     /\ \A r, q \in TopReads : r < q => reads[r].at < reads[q].at
     /\ \A l \in DOMAIN log : \A i \in tops : TagOf(i) = "Scalar" => log[l].ev < i

Produced == calls' # calls \/ events' # events
\* The walk moves in the step: a call of next or an insertion.
Indexed == reads' # reads \/ pos' # pos \/ index' # index \/ log' # log

\* C16: within one construction every callback comes before the first
\* call of next by collect, every insertion comes before from_str returns,
\* and once the table is returned neither get nor iter changes its keys
\* or its positions.
C16_PhasesAndImmutability ==
  /\ [](pc = "parse" => reads = <<>> /\ pos = 0 /\ index = <<>> /\ log = <<>>)
  /\ [](pc = "done" => result = "Ok" /\ stack = <<>> /\ pstate = "end")
  /\ [][ /\ Produced => pc = "parse" /\ ~Indexed
         /\ Indexed => pc = "collect" /\ pc' = "collect" /\ pstate = "end" /\ ~Produced
         /\ pc = "done" => pc' = "done" /\ UNCHANGED <<index, events, pos, log, reads>>
         /\ ret' # ret => pc = "done" ]_vars

\* C16's case: a table of several entries has been returned and iterated.
C16_Witness ==
  /\ pc = "done" /\ Iterated(ret) /\ Len(ret[1].val) >= 2
  /\ Iter(index) = ret[1].val
  /\ Len(calls) >= 8 /\ Len(reads) > Len(events) /\ Len(log) >= 2

\* The scalars the walk has consumed.
ScalarsRead ==
  { r \in DOMAIN reads : reads[r].got # None /\ reads[r].got[1].ev.tag = "Scalar" }
\* The step in which collect_seq gets a MappingStart: nothing is inserted,
\* and collect_map is called under the path of the element.
MappingElementStep ==
  /\ reads' # reads
  /\ reads'[Len(reads')].by = "collect_seq"
  /\ reads'[Len(reads')].got # None
  /\ reads'[Len(reads')].got[1].ev.tag = "MappingStart"
\* The mappings that are elements of a sequence, in the text.
MappingElements ==
  { i \in DOMAIN events :
      roles[i].role = "elem" /\ TagOf(i) = "MappingStart" /\ roles[i].path # NoPath }
\* No key or scalar element renders the path string of token i.
NoScalarAt(i) ==
  \A j \in KeyTokens \cup ElemTokens :
    Display(roles[j].path) # Display(roles[i].path)

\* C17: a mapping that is an element of a sequence at P, at index i, gets
\* no entry under render(Seq(P, i)): only its keys are recorded; no
\* SequenceStart, SequenceEnd, MappingStart or MappingEnd causes an
\* insertion, so the index never has more entries than scalars were
\* consumed.
C17_OnlyScalarsInserted ==
  /\ [](\A l \in DOMAIN log : TagOf(log[l].ev) = "Scalar")
  /\ [](Len(index) <= Cardinality(ScalarsRead))
  /\ [](pc = "done" /\ Supported =>
          \A i \in MappingElements :
            NoScalarAt(i) => ~HasKey(index, Display(roles[i].path)))
  /\ [][ /\ MappingElementStep =>
              /\ index' = index /\ log' = log
              /\ Top(stack').proc = "collect_map"
              /\ Top(stack').path = PathSeq(Top(stack).path, Top(stack).index)
         /\ index' # index =>
              /\ reads' # reads
              /\ reads'[Len(reads')].got # None
              /\ reads'[Len(reads')].got[1].ev.tag = "Scalar" ]_vars

\* C17's case: a mapping is the second element of a sequence; its key is
\* recorded under "//1/~" and nothing under "//1".
C17_Witness ==
  /\ pc = "done" /\ Supported
  /\ \E i \in MappingElements :
       /\ roles[i].path = PathSeq(PathRoot, 1)
       /\ ~HasKey(index, <<"/", "/", "1">>)
       /\ HasKey(index, <<"/", "/", "1", "/", "~">>)
       /\ HasKey(index, <<"/", "/", "0">>)

\* The record that ends the container that starts at buffer place s.
MatchingEnd(s) ==
  CHOOSE e \in DOMAIN events :
    /\ e > s /\ Open(e) = Open(s) - 1
    /\ \A n \in (s + 1)..(e - 1) : Open(n) >= Open(s)
\* The invocation that returns in the step was entered for a container:
\* its caller waits for it to go on after the container.
EntryReturns ==
  /\ pc = "collect" /\ Len(stack) >= 2
  /\ Top(stack).pc = "ret" /\ stack[Len(stack) - 1].pc = "tail"
  /\ stack' = SubSeq(stack, 1, Len(stack) - 1)
\* The buffer place of the container start that invocation was entered
\* after: what its caller read last.
EntryStart ==
  LET mine == { r \in DOMAIN reads : reads[r].depth = Len(stack) - 1 }
  IN reads[CHOOSE r \in mine : \A q \in mine : q <= r].at + 1
\* Every record was returned by one call of next.
AllConsumedOnce ==
  /\ { reads[r].at + 1 : r \in { q \in DOMAIN reads : reads[q].got # None } }
       = DOMAIN events
  /\ ConsumedOnce

\* C18: in a balanced buffer where every document is a mapping or a
\* sequence, every key a scalar, every element a scalar or a mapping and
\* no alias was dropped, every invocation of collect_seq or collect_map
\* entered right after a container start returns with the cursor one past
\* the matching end, and collect(Root) returns with the cursor at the
\* length of the buffer, every record consumed once.
C18_WalkMirrorsStructure ==
  /\ [](pc = "done" /\ Supported => pos = Len(events) /\ AllConsumedOnce)
  /\ [][EntryReturns /\ Supported =>
          /\ TagOf(EntryStart) \in {"SequenceStart", "MappingStart"}
          /\ Top(stack).proc =
               (IF TagOf(EntryStart) = "SequenceStart" THEN "collect_seq" ELSE "collect_map")
          /\ pos = MatchingEnd(EntryStart)
          /\ pos' = pos]_vars

\* C18's case: the walk has returned over a mirrored stream with
\* containers three deep.
C18_Witness ==
  /\ pc = "done" /\ Supported
  /\ NestingDepth >= 3 /\ Len(log) >= 3
  /\ pos = Len(events)

\* The shape the walk mirrors, aliases aside: every document is a mapping
\* or a sequence, every key a scalar, every element a scalar or a mapping.
MirroredShape ==
  \A i \in DOMAIN events :
    /\ roles[i].role = "top" => TagOf(i) \in {"SequenceStart", "MappingStart"}
    /\ roles[i].role = "key" => TagOf(i) = "Scalar"
    /\ roles[i].role = "elem" => TagOf(i) \in {"Scalar", "MappingStart"}
\* The stream has alias references, all of them values of mapping keys.
AliasValuesOnly ==
  /\ \E k \in DOMAIN calls : calls[k].tag = "Alias"
  /\ \A k \in DOMAIN calls : calls[k].tag = "Alias" => calls[k].role = "val"

\* C19 as stated: when a mapping value is an alias, whose event is dropped,
\* every other key of that mapping and of the enclosing containers is
\* still recorded under its own path with the position of its key token,
\* and no scalar that is a value is recorded as if it were a key.  (Read in
\* the claim's favour: one document, of the shape the walk mirrors, and an
\* entry that a later entry of the same path string replaces is not
\* counted.)
C19_AliasLeavesIndexIntact ==
  pc = "done" /\ OneDocument /\ MirroredShape /\ AliasValuesOnly =>
    /\ \A i \in KeyTokens :
         ~LaterSame(i) => Get(index, Display(roles[i].path)) = Some(PosOf(i))
    /\ \A l \in DOMAIN log : roles[log[l].ev].role # "val"

====
